---- MODULE Spec2Model ----
(***************************************************************************)
(* Charging-session lifecycle and real-time accounting engine of           *)
(* EvLiter-Server (src/src/services/chargingSessionService.ts).            *)
(*                                                                         *)
(* Numbers.  JavaScript numbers are modelled as exact rationals:           *)
(*   energy      integer count of 1/6000 kWh        (KWH units per kWh)    *)
(*   money       integer count of 1/6000 Naira      (NAIRA units per Naira)*)
(*   battery     integer count of 1/100 percent     (PCT units per percent)*)
(*   power       rational [n, d] in kW, reduced, d > 0                     *)
(*   time        clock ticks of 30 s                (TicksPerMinute = 2)   *)
(*   months      YYYY-MM strings as month numbers; a month has 30 days     *)
(* toFixed(k) is modelled as rounding to the nearest multiple of 10^-k,    *)
(* ties away from zero.  An optional value is a set with at most one       *)
(* element ({} is undefined).                                              *)
(***************************************************************************)
EXTENDS Integers, Sequences, FiniteSets, TLC

\* ------------------------------------------------------------------ bounds
MaxSessions == 2
MaxNow == 3
MaxInflight == 2
MaxMonths == 13
MaxHours == 2

\* ------------------------------------------------------------------ units
KWH == 60 * 100
NAIRA == 60 * 100
PCT == 10 * 10
TicksPerMinute == 1 + 1
TicksPerHour == TicksPerMinute * 60
\* the calendar of the model: every month has 30 days
TicksPerMonth == TicksPerMinute * 60 * 24 * 30

\* ------------------------------------------------------- program constants
BatteryCapacityKWh == 60
EfficiencyPct == 90
DefaultPricePerKWh == 165
MonthsKept == 12
PowerTolerancePct == 120

Max(a, b) == IF a >= b THEN a ELSE b
Min(a, b) == IF a <= b THEN a ELSE b
Abs(a) == IF a >= 0 THEN a ELSE -a

RECURSIVE GCD(_, _)
GCD(a, b) == IF b = 0 THEN a ELSE GCD(b, a % b)

\* the rational n/d (d > 0) in lowest terms
Rat(n, d) ==
    LET g == GCD(Abs(n), d)
    IN  IF n = 0 THEN [n |-> 0, d |-> 1] ELSE [n |-> n \div g, d |-> d \div g]

RatZero == [n |-> 0, d |-> 1]

\* nearest integer to n/d (d > 0), ties away from zero: Number.prototype.toFixed
RoundDiv(n, d) ==
    IF n >= 0 THEN (2 * n + d) \div (2 * d)
              ELSE -((2 * (-n) + d) \div (2 * d))

\* parseFloat((num/den).toFixed(2)) for a value of num/den units where one
\* whole is `unit` units; the result is in units
ToFixed2(num, den, unit) == (unit \div 100) * RoundDiv(num, den * (unit \div 100))

\* the value of an optional, or dflt when it is undefined
OrElse(opt, dflt) == IF opt = {} THEN dflt ELSE CHOOSE x \in opt : TRUE

\* ------------------------------------------------------------- input sets
Users == {"u1", "u2"}

\* station snapshots a Start request may carry (chargingStationSchema):
\* powerOutput in kW, pricePerKWh in Naira (optional)
StationA == [id |-> "s1", connectorTypes |-> {"CCS"}, powerOutput |-> 50,
             pricePerKWh |-> {165}]
StationB == [id |-> "s2", connectorTypes |-> {"Type2"}, powerOutput |-> 0,
             pricePerKWh |-> {}]
\* a free station (price 0) and a station whose snapshot carries a negative
\* price: pricePerKWh is z.number().optional(), so Start accepts both
StationFree == [id |-> "s3", connectorTypes |-> {"CCS"}, powerOutput |-> 50,
                pricePerKWh |-> {0}]
StationNegative == [id |-> "s4", connectorTypes |-> {"CCS"}, powerOutput |-> 50,
                    pricePerKWh |-> {-165}]
\* a station whose snapshot carries a negative rated power: powerOutput is
\* z.number(), so Start accepts it
StationReverse == [id |-> "s5", connectorTypes |-> {"CCS"}, powerOutput |-> -50,
                   pricePerKWh |-> {165}]
Snapshots == {StationA, StationB}

\* COMPANY_CHARGING_STATIONS as shipped: the pricePerKWh the directory lists
\* for each company station id; s1 stands for evliter-lagos-victoria-island,
\* s2 for evliter-lagos-ikeja
COMPANY_CHARGING_STATIONS == ("s1" :> {165}) @@ ("s2" :> {180})

\* contents the directory may have in a later release: as shipped, with the
\* price of s2 changed, with s2 removed
Directories ==
    {COMPANY_CHARGING_STATIONS,
     ("s1" :> {165}) @@ ("s2" :> {200}),
     ("s1" :> {165})}

\* batteryLevelStart 0..100 (30.04 % has more decimals than toFixed(1) keeps)
BatteryStarts == {30 * PCT, 3004}

\* startChargingSessionRequestSchema
StartRequests ==
    {[stationId |-> st.id, connectorId |-> "c1", connectorType |-> {ct},
      batteryLevelStart |-> b, station |-> st]
        : st \in Snapshots, ct \in {"CCS"}, b \in BatteryStarts}
    \cup
    {[stationId |-> "s2", connectorId |-> "Type2", connectorType |-> {},
      batteryLevelStart |-> b, station |-> st]
        : st \in Snapshots, b \in BatteryStarts}
    \cup
    \* connectorType given as the empty string
    {[stationId |-> "s1", connectorId |-> id, connectorType |-> {""},
      batteryLevelStart |-> 30 * PCT, station |-> StationA]
        : id \in {"c1", "CCS"}}
    \cup
    {[stationId |-> st.id, connectorId |-> "c1", connectorType |-> {"CCS"},
      batteryLevelStart |-> 30 * PCT, station |-> st]
        : st \in {StationFree, StationNegative}}

\* updateActiveSessionRequestSchema: batteryLevel 0..100, energyDelivered >= 0
\* (52.34 % and 4.234 kWh have more decimals than toFixed keeps)
UpdateRequests ==
    {[batteryLevel |-> {b}, energyDelivered |-> e]
        : b \in {10 * PCT, 5234, 100 * PCT}, e \in {{}, {0}, {25404}}}

\* endChargingSessionRequestSchema
EndRequests ==
    {[sessionId |-> i, batteryLevelEnd |-> b, stationRating |-> {}]
        : i \in 1..MaxSessions, b \in {{}, {10 * PCT}, {90 * PCT}}}
    \cup
    {[sessionId |-> 1, batteryLevelEnd |-> {90 * PCT}, stationRating |-> {5}]}

\* the requests of the lifecycle specifications: Start at station A, one
\* telemetry report, End with a final battery level
LifecycleStartRequests ==
    {r \in StartRequests : /\ r.station = StationA
                            /\ r.connectorType # {""}
                            /\ r.batteryLevelStart = 30 * PCT}
LifecycleUpdateRequests ==
    {[batteryLevel |-> {5234}, energyDelivered |-> {25404}]}
LifecycleEndRequests ==
    {r \in EndRequests : r.batteryLevelEnd = {90 * PCT} /\ r.stationRating = {}}

NoRequest == [none |-> TRUE]

\* ------------------------------------------------------------------ state
VARIABLES
    sessions,   \* the ChargingSession collection: sessions[i] is the document
                \* with _id i, in insertion order
    directory,  \* the content of COMPANY_CHARGING_STATIONS in the running
                \* release: station id -> optional pricePerKWh
    now,        \* the wall clock, in ticks
    inflight,   \* startChargingSession and updateActiveSession calls
                \* suspended between their findOne and their save:
                \* slot -> optional call frame
    last        \* the call that returned last: operation, caller, request,
                \* outcome and the returned data

vars == <<sessions, directory, now, inflight, last>>

Slots == 1..MaxInflight

\* companyStations.find((s) => s.id === stationId)?.pricePerKWh: the price
\* the directory lists for a station id, {} when it lists none
CompanyStationPrice(stationId) ==
    IF stationId \in DOMAIN directory THEN directory[stationId] ELSE {}

\* ChargingSession.findOne({userId, status: "active"}): the first match in
\* insertion order, {} when there is none
ActiveIdsOf(store, userId) ==
    {i \in DOMAIN store : store[i].userId = userId /\ store[i].status = "active"}

\* findOne by status alone: the first Active session of any user
FindActive_AnyUser(store, userId) ==
    LET ids == {i \in DOMAIN store : store[i].status = "active"}
    IN  IF ids = {} THEN {} ELSE {CHOOSE i \in ids : \A j \in ids : i <= j}

FindActive(store, userId) ==
    LET ids == ActiveIdsOf(store, userId)
    IN  IF ids = {} THEN {} ELSE {CHOOSE i \in ids : \A j \in ids : i <= j}

\* findOne by _id and userId that also matches sessions that are not active
FindActiveById_AnyStatus(store, sessionId, userId) ==
    {i \in DOMAIN store : i = sessionId /\ store[i].userId = userId}

\* findOne by _id and status that also matches sessions of other users
FindActiveById_AnyUser(store, sessionId, userId) ==
    {i \in DOMAIN store : i = sessionId /\ store[i].status = "active"}

\* ChargingSession.findOne({_id, userId, status: "active"})
FindActiveById(store, sessionId, userId) ==
    {i \in DOMAIN store : /\ i = sessionId
                          /\ store[i].userId = userId
                          /\ store[i].status = "active"}

\* sessionToResponse
sessionToResponse(id, doc) == [id |-> id, doc |-> doc]

\* whole minutes from a session's startTime to the instant t:
\* Math.floor(durationMs / (1000 * 60))
DurationMinutes(doc, t) == (t - doc.startTime) \div TicksPerMinute

\* session.stationPowerOutput || session.averagePower || 0, as a rational kW
PowerOutputKw(doc) ==
    IF doc.stationPowerOutput # 0 THEN Rat(doc.stationPowerOutput, 1)
    ELSE doc.averagePower

\* calculateRealTimeValues without the cap of the battery level at 100
calculateRealTimeValues_NoCap(doc, t) ==
    LET durationMinutes == DurationMinutes(doc, t)
        powerOutputKw == PowerOutputKw(doc)
        den == powerOutputKw.d
        calculatedEnergy ==
            powerOutputKw.n * durationMinutes * EfficiencyPct * (KWH \div (60 * 100))
        eNum == Max(calculatedEnergy, doc.energyDelivered * den)
        pricePerKWh == OrElse(doc.stationPricePerKWh, 0)
        storedLevel == IF doc.batteryLevel # 0 THEN doc.batteryLevel
                       ELSE doc.batteryLevelStart
        cap == ((BatteryCapacityKWh * KWH) \div (100 * PCT)) * den
        calculatedBatteryLevel == doc.batteryLevelStart * cap + eNum
        batteryLevel == Max(calculatedBatteryLevel, storedLevel * cap)
    IN  IF powerOutputKw.n <= 0 \/ durationMinutes <= 0
        THEN [energyDelivered |-> doc.energyDelivered,
              averagePower |-> doc.averagePower,
              totalCost |-> doc.totalCost,
              batteryLevel |-> storedLevel,
              duration |-> durationMinutes]
        ELSE [energyDelivered |-> ToFixed2(eNum, den, KWH),
              averagePower |-> Rat(RoundDiv(eNum * 100, den * (KWH \div 60) * durationMinutes), 100),
              totalCost |-> ToFixed2(eNum * pricePerKWh * (NAIRA \div KWH), den, NAIRA),
              batteryLevel |-> (PCT \div 10) * RoundDiv(batteryLevel, cap * (PCT \div 10)),
              duration |-> durationMinutes]

\* calculateRealTimeValues(session) at the instant t.  Inside, the energy
\* max(calculatedEnergy, stored) is the rational eNum / den energy units.
calculateRealTimeValues(doc, t) ==
    LET durationMinutes == DurationMinutes(doc, t)
        powerOutputKw == PowerOutputKw(doc)
        den == powerOutputKw.d
        \* powerOutputKw * durationHours * efficiency, times den
        calculatedEnergy ==
            powerOutputKw.n * durationMinutes * EfficiencyPct * (KWH \div (60 * 100))
        eNum == Max(calculatedEnergy, doc.energyDelivered * den)
        pricePerKWh == OrElse(doc.stationPricePerKWh, 0)
        storedLevel == IF doc.batteryLevel # 0 THEN doc.batteryLevel
                       ELSE doc.batteryLevelStart
        \* battery levels scaled by cap = BatteryCapacityKWh * KWH * den / (100 * PCT)
        \* so that the energy term is eNum itself
        cap == ((BatteryCapacityKWh * KWH) \div (100 * PCT)) * den
        calculatedBatteryLevel ==
            Min(100 * PCT * cap, doc.batteryLevelStart * cap + eNum)
        batteryLevel == Max(calculatedBatteryLevel, storedLevel * cap)
    IN  IF powerOutputKw.n <= 0 \/ durationMinutes <= 0
        THEN [energyDelivered |-> doc.energyDelivered,
              averagePower |-> doc.averagePower,
              totalCost |-> doc.totalCost,
              batteryLevel |-> storedLevel,
              duration |-> durationMinutes]
        ELSE [energyDelivered |-> ToFixed2(eNum, den, KWH),
              \* energyDelivered / durationHours, toFixed(2)
              averagePower |-> Rat(RoundDiv(eNum * 100, den * (KWH \div 60) * durationMinutes), 100),
              totalCost |-> ToFixed2(eNum * pricePerKWh * (NAIRA \div KWH), den, NAIRA),
              \* toFixed(1)
              batteryLevel |-> (PCT \div 10) * RoundDiv(batteryLevel, cap * (PCT \div 10)),
              duration |-> durationMinutes]

\* calculateCost(energyDelivered, stationId, sessionPricePerKWh)
calculateCost(energyDelivered, stationId, sessionPricePerKWh) ==
    IF sessionPricePerKWh # {} /\ OrElse(sessionPricePerKWh, 0) > 0
    THEN energyDelivered * OrElse(sessionPricePerKWh, 0) * (NAIRA \div KWH)
    ELSE LET listed == OrElse(CompanyStationPrice(stationId), 0)
             pricePerKWh == IF listed # 0 THEN listed ELSE DefaultPricePerKWh
         IN  energyDelivered * pricePerKWh * (NAIRA \div KWH)

\* ------------------------------------------------------------- operations
Returned(op, userId, req, outcome, data) ==
    [op |-> op, user |-> userId, req |-> req, outcome |-> outcome, data |-> data]

\* a save that does not write endTime
Save_DropsEndTime(store, id, loaded, doc) ==
    [store EXCEPT ![id] = [doc EXCEPT !.endTime = loaded.endTime]]

\* save() of a loaded document: Mongoose writes the paths whose value the
\* handler changed and leaves the other paths of the stored document alone
\* (its validators, batteryLevel 0..100 and stationRating 1..5, accept every
\* value the request schemas let through)
Save(store, id, loaded, doc) ==
    [store EXCEPT ![id] =
        [f \in DOMAIN doc |-> IF doc[f] # loaded[f] THEN doc[f] ELSE @[f]]]

\* request.connectorType || request.connectorId: an absent connectorType
\* and the empty string are both falsy
connectorTypeToValidate(req) ==
    IF req.connectorType \in {{}, {""}} THEN req.connectorId
    ELSE OrElse(req.connectorType, req.connectorId)

\* StartOutcome without the check for an existing active session
StartOutcome_NoConflictCheck(req, existingActive) ==
    IF req.station.id # req.stationId THEN "validation"
    ELSE IF connectorTypeToValidate(req) \notin req.station.connectorTypes
         THEN "validation"
    ELSE "ok"

\* StartOutcome without the check of the connector type
StartOutcome_NoConnectorCheck(req, existingActive) ==
    IF existingActive # {} THEN "conflict"
    ELSE IF req.station.id # req.stationId THEN "validation"
    ELSE "ok"

\* startChargingSession after its findOne returned: the checks of lines
\* 200-225, in order
StartOutcome(req, existingActive) ==
    IF existingActive # {} THEN "conflict"
    ELSE IF req.station.id # req.stationId THEN "validation"
    ELSE IF connectorTypeToValidate(req) \notin req.station.connectorTypes
         THEN "validation"
    ELSE "ok"

\* new ChargingSession({...}) of startChargingSession, created at instant t
NewSession(userId, req, t) ==
    [userId |-> userId,
     stationId |-> req.stationId,
     connectorId |-> req.connectorId,
     startTime |-> t,
     endTime |-> {},
     batteryLevel |-> req.batteryLevelStart,
     batteryLevelStart |-> req.batteryLevelStart,
     status |-> "active",
     duration |-> 0,
     energyDelivered |-> 0,
     totalCost |-> 0,
     averagePower |-> RatZero,
     stationRating |-> {},
     stationPricePerKWh |-> req.station.pricePerKWh,
     stationPowerOutput |-> req.station.powerOutput]

\* the part of startChargingSession that runs once findOne has returned
\* existingActive: throw, or create and save the session
StartFinish(userId, req, existingActive, cap) ==
    LET outcome == StartOutcome(req, existingActive)
        doc == NewSession(userId, req, now)
    IN  IF outcome = "ok"
        THEN /\ Len(sessions) < cap
             /\ sessions' = Append(sessions, doc)
             /\ last' = Returned("start", userId, req, "ok",
                                 {sessionToResponse(Len(sessions) + 1, doc)})
        ELSE /\ sessions' = sessions
             /\ last' = Returned("start", userId, req, outcome, {})

\* startChargingSession, run without interruption
Start(userId, req, cap) ==
    /\ StartFinish(userId, req, FindActive(sessions, userId), cap)
    /\ UNCHANGED <<directory, now, inflight>>

\* startChargingSession up to the return of its findOne
StartLookup(slot, userId, req) ==
    /\ inflight[slot] = {}
    /\ inflight' = [inflight EXCEPT ![slot] =
          {[user |-> userId, req |-> req,
            existingActive |-> FindActive(sessions, userId)]}]
    /\ UNCHANGED <<sessions, directory, now, last>>

\* startChargingSession from the return of its findOne to its end
StartSave(slot) ==
    /\ inflight[slot] # {}
    /\ LET call == CHOOSE c \in inflight[slot] : TRUE
       IN  StartFinish(call.user, call.req, call.existingActive, MaxSessions)
    /\ inflight' = [inflight EXCEPT ![slot] = {}]
    /\ UNCHANGED <<directory, now>>

\* an update that stores the caller's values whenever they are supplied
UpdatedSession_CallerWins(doc, req, t) ==
    LET realTimeValues == calculateRealTimeValues(doc, t)
    IN  [doc EXCEPT
            !.batteryLevel = OrElse(req.batteryLevel, realTimeValues.batteryLevel),
            !.energyDelivered = OrElse(req.energyDelivered, realTimeValues.energyDelivered),
            !.duration = realTimeValues.duration,
            !.averagePower = realTimeValues.averagePower,
            !.totalCost = realTimeValues.totalCost]

\* the document updateActiveSession saves, from the loaded one
UpdatedSession(doc, req, t) ==
    LET realTimeValues == calculateRealTimeValues(doc, t)
    IN  [doc EXCEPT
            !.batteryLevel =
                IF req.batteryLevel # {}
                THEN Max(OrElse(req.batteryLevel, 0), realTimeValues.batteryLevel)
                ELSE realTimeValues.batteryLevel,
            !.energyDelivered =
                IF req.energyDelivered # {}
                THEN Max(OrElse(req.energyDelivered, 0), realTimeValues.energyDelivered)
                ELSE realTimeValues.energyDelivered,
            !.duration = realTimeValues.duration,
            !.averagePower = realTimeValues.averagePower,
            !.totalCost = realTimeValues.totalCost]

\* updateActiveSession
Update(userId, req) ==
    LET found == FindActive(sessions, userId)
    IN  /\ IF found = {}
           THEN /\ sessions' = sessions
                /\ last' = Returned("update", userId, req, "notfound", {})
           ELSE LET id == CHOOSE i \in found : TRUE
                    doc == UpdatedSession(sessions[id], req, now)
                IN  /\ sessions' = Save(sessions, id, sessions[id], doc)
                    /\ last' = Returned("update", userId, req, "ok",
                                        {sessionToResponse(id, doc)})
        /\ UNCHANGED <<directory, now, inflight>>

\* updateActiveSession up to its save(): findOne returns the loaded document
\* (or nothing, and the call throws), and the handler fills in the values it
\* is going to save, reading the clock
UpdateLookup(slot, userId, req) ==
    LET found == FindActive(sessions, userId)
    IN  /\ inflight[slot] = {}
        /\ IF found = {}
           THEN /\ last' = Returned("update", userId, req, "notfound", {})
                /\ inflight' = inflight
           ELSE LET id == CHOOSE i \in found : TRUE
                IN  /\ inflight' = [inflight EXCEPT ![slot] =
                          {[user |-> userId, req |-> req, id |-> id,
                            loaded |-> sessions[id],
                            doc |-> UpdatedSession(sessions[id], req, now)]}]
                    /\ last' = last
        /\ UNCHANGED <<sessions, directory, now>>

\* updateActiveSession from its save() to its end: the paths the handler
\* changed are written to the stored document, whatever it holds by now
UpdateSave(slot) ==
    /\ inflight[slot] # {}
    /\ LET call == CHOOSE c \in inflight[slot] : TRUE
       IN  /\ sessions' = Save(sessions, call.id, call.loaded, call.doc)
           /\ last' = Returned("update", call.user, call.req, "ok",
                               {sessionToResponse(call.id, call.doc)})
    /\ inflight' = [inflight EXCEPT ![slot] = {}]
    /\ UNCHANGED <<directory, now>>

\* an End that never estimates the energy from the battery level change
EndedSession_NoBatteryEstimate(doc, req, t) ==
    LET durationMinutes == DurationMinutes(doc, t)
        given == req.batteryLevelEnd # {}
        batteryLevelEnd == OrElse(req.batteryLevelEnd, 0)
        energy1 == doc.energyDelivered
        estimatedEnergyFromPower ==
            doc.stationPowerOutput * durationMinutes * (KWH \div 60)
        measured == durationMinutes > 0 /\ energy1 > 0
        fallback == /\ ~measured
                    /\ doc.stationPowerOutput # 0 /\ durationMinutes > 0
                    /\ energy1 = 0
        energy2 == IF fallback THEN estimatedEnergyFromPower ELSE energy1
    IN  [doc EXCEPT
            !.batteryLevel = IF given THEN batteryLevelEnd ELSE @,
            !.energyDelivered = energy2,
            !.averagePower =
                IF measured THEN Rat(energy1, durationMinutes * (KWH \div 60))
                ELSE IF fallback THEN Rat(doc.stationPowerOutput, 1)
                ELSE @,
            !.totalCost = calculateCost(energy2, doc.stationId, doc.stationPricePerKWh),
            !.endTime = {t},
            !.duration = durationMinutes,
            !.status = "completed",
            !.stationRating = IF req.stationRating # {} THEN req.stationRating ELSE @]

\* an endChargingSession that reconciles batteryLevelEnd with the stored level
EndedSession_MaxReconciles(doc, req, t) ==
    LET durationMinutes == DurationMinutes(doc, t)
        given == req.batteryLevelEnd # {}
        batteryLevelEnd == OrElse(req.batteryLevelEnd, 0)
        \* (batteryIncrease / 100) * 60 kWh
        estimatedEnergy ==
            (batteryLevelEnd - doc.batteryLevelStart)
                * ((BatteryCapacityKWh * KWH) \div (100 * PCT))
        energy1 == IF doc.energyDelivered = 0 /\ given
                   THEN Max(0, estimatedEnergy) ELSE doc.energyDelivered
        \* (stationPowerOutput * durationMinutes) / 60 kWh
        estimatedEnergyFromPower ==
            doc.stationPowerOutput * durationMinutes * (KWH \div 60)
        measured == durationMinutes > 0 /\ energy1 > 0
        fallback == /\ ~measured
                    /\ doc.stationPowerOutput # 0 /\ durationMinutes > 0
                    /\ energy1 = 0
        energy2 == IF fallback THEN estimatedEnergyFromPower ELSE energy1
    IN  [doc EXCEPT
            !.batteryLevel = IF given THEN Max(batteryLevelEnd, @) ELSE @,
            !.energyDelivered = energy2,
            !.averagePower =
                IF measured THEN Rat(energy1, durationMinutes * (KWH \div 60))
                ELSE IF fallback THEN Rat(doc.stationPowerOutput, 1)
                ELSE @,
            !.totalCost = calculateCost(energy2, doc.stationId, doc.stationPricePerKWh),
            !.endTime = {t},
            !.duration = durationMinutes,
            !.status = "completed",
            !.stationRating = IF req.stationRating # {} THEN req.stationRating ELSE @]

\* an endChargingSession without the estimate from the rated power
EndedSession_NoPowerFallback(doc, req, t) ==
    LET durationMinutes == DurationMinutes(doc, t)
        given == req.batteryLevelEnd # {}
        batteryLevelEnd == OrElse(req.batteryLevelEnd, 0)
        \* (batteryIncrease / 100) * 60 kWh
        estimatedEnergy ==
            (batteryLevelEnd - doc.batteryLevelStart)
                * ((BatteryCapacityKWh * KWH) \div (100 * PCT))
        energy1 == IF doc.energyDelivered = 0 /\ given
                   THEN Max(0, estimatedEnergy) ELSE doc.energyDelivered
        \* (stationPowerOutput * durationMinutes) / 60 kWh
        estimatedEnergyFromPower ==
            doc.stationPowerOutput * durationMinutes * (KWH \div 60)
        measured == durationMinutes > 0 /\ energy1 > 0
        fallback == FALSE
        energy2 == IF fallback THEN estimatedEnergyFromPower ELSE energy1
    IN  [doc EXCEPT
            !.batteryLevel = IF given THEN batteryLevelEnd ELSE @,
            !.energyDelivered = energy2,
            !.averagePower =
                IF measured THEN Rat(energy1, durationMinutes * (KWH \div 60))
                ELSE IF fallback THEN Rat(doc.stationPowerOutput, 1)
                ELSE @,
            !.totalCost = calculateCost(energy2, doc.stationId, doc.stationPricePerKWh),
            !.endTime = {t},
            !.duration = durationMinutes,
            !.status = "completed",
            !.stationRating = IF req.stationRating # {} THEN req.stationRating ELSE @]

\* the document endChargingSession saves, from the loaded one
EndedSession(doc, req, t) ==
    LET durationMinutes == DurationMinutes(doc, t)
        given == req.batteryLevelEnd # {}
        batteryLevelEnd == OrElse(req.batteryLevelEnd, 0)
        \* (batteryIncrease / 100) * 60 kWh
        estimatedEnergy ==
            (batteryLevelEnd - doc.batteryLevelStart)
                * ((BatteryCapacityKWh * KWH) \div (100 * PCT))
        energy1 == IF doc.energyDelivered = 0 /\ given
                   THEN Max(0, estimatedEnergy) ELSE doc.energyDelivered
        \* (stationPowerOutput * durationMinutes) / 60 kWh
        estimatedEnergyFromPower ==
            doc.stationPowerOutput * durationMinutes * (KWH \div 60)
        measured == durationMinutes > 0 /\ energy1 > 0
        fallback == /\ ~measured
                    /\ doc.stationPowerOutput # 0 /\ durationMinutes > 0
                    /\ energy1 = 0
        energy2 == IF fallback THEN estimatedEnergyFromPower ELSE energy1
    IN  [doc EXCEPT
            !.batteryLevel = IF given THEN batteryLevelEnd ELSE @,
            !.energyDelivered = energy2,
            !.averagePower =
                IF measured THEN Rat(energy1, durationMinutes * (KWH \div 60))
                ELSE IF fallback THEN Rat(doc.stationPowerOutput, 1)
                ELSE @,
            !.totalCost = calculateCost(energy2, doc.stationId, doc.stationPricePerKWh),
            !.endTime = {t},
            !.duration = durationMinutes,
            !.status = "completed",
            !.stationRating = IF req.stationRating # {} THEN req.stationRating ELSE @]

\* the check of lines 303-306 on the session endChargingSession is about to
\* save: it runs only where averagePower was computed from energy and
\* duration, and compares it with stationPowerOutput * 1.2
PowerWarning(doc, req, t) ==
    LET durationMinutes == DurationMinutes(doc, t)
        energy1 == IF doc.energyDelivered = 0 /\ req.batteryLevelEnd # {}
                   THEN Max(0, (OrElse(req.batteryLevelEnd, 0) - doc.batteryLevelStart)
                                 * ((BatteryCapacityKWh * KWH) \div (100 * PCT)))
                   ELSE doc.energyDelivered
    IN  /\ durationMinutes > 0 /\ energy1 > 0
        /\ doc.stationPowerOutput # 0
        \* averagePower > stationPowerOutput * 1.2
        /\ energy1 * 100
             > doc.stationPowerOutput * PowerTolerancePct * durationMinutes * (KWH \div 60)

\* an endChargingSession that throws where the code only warns
End_ThrowsOnWarning(userId, req) ==
    LET found == FindActiveById(sessions, req.sessionId, userId)
    IN  /\ IF found = {}
           THEN /\ sessions' = sessions
                /\ last' = Returned("end", userId, req, "notfound", {})
           ELSE LET id == CHOOSE i \in found : TRUE
                    doc == EndedSession(sessions[id], req, now)
                IN  IF PowerWarning(sessions[id], req, now)
                    THEN /\ sessions' = sessions
                         /\ last' = Returned("end", userId, req, "error", {})
                    ELSE /\ sessions' = Save(sessions, id, sessions[id], doc)
                         /\ last' = Returned("end", userId, req, "ok",
                                             {sessionToResponse(id, doc)})
        /\ UNCHANGED <<directory, now, inflight>>

\* endChargingSession
End(userId, req) ==
    LET found == FindActiveById(sessions, req.sessionId, userId)
    IN  /\ IF found = {}
           THEN /\ sessions' = sessions
                /\ last' = Returned("end", userId, req, "notfound", {})
           ELSE LET id == CHOOSE i \in found : TRUE
                    doc == EndedSession(sessions[id], req, now)
                IN  /\ sessions' = Save(sessions, id, sessions[id], doc)
                    /\ last' = Returned("end", userId, req, "ok",
                                        {sessionToResponse(id, doc)})
        /\ UNCHANGED <<directory, now, inflight>>

\* a response that carries the stored values and the elapsed minutes only
ActiveView_Stored(doc, t) ==
    [doc EXCEPT !.duration = DurationMinutes(doc, t)]

\* the response of getActiveSession for a loaded document
ActiveView(doc, t) ==
    LET realTimeValues == calculateRealTimeValues(doc, t)
    IN  [doc EXCEPT
            !.energyDelivered = realTimeValues.energyDelivered,
            !.averagePower = realTimeValues.averagePower,
            !.totalCost = realTimeValues.totalCost,
            !.batteryLevel = realTimeValues.batteryLevel,
            !.duration = realTimeValues.duration]

\* the clock value a call reads with new Date(), recorded as its input
ClockRead(t) == [at |-> t]

\* a getActiveSession that saves the document it has filled in
GetActive_SavesView(userId) ==
    LET found == FindActive(sessions, userId)
    IN  /\ last' = Returned("getActive", userId, ClockRead(now), "ok",
              {sessionToResponse(i, ActiveView(sessions[i], now)) : i \in found})
        /\ sessions' = [i \in DOMAIN sessions |->
              IF i \in found
              THEN Save(sessions, i, sessions[i], ActiveView(sessions[i], now))[i]
              ELSE sessions[i]]
        /\ UNCHANGED <<directory, now, inflight>>

\* getActiveSession: null (no data) when findOne returns nothing, otherwise
\* the loaded document with the real-time values filled in, never saved
GetActive(userId) ==
    LET found == FindActive(sessions, userId)
    IN  /\ last' = Returned("getActive", userId, ClockRead(now), "ok",
              {sessionToResponse(i, ActiveView(sessions[i], now)) : i \in found})
        /\ UNCHANGED <<sessions, directory, now, inflight>>

\* -------------------------------------------------------------- statistics
\* station ids that are canonical array indices, with their numeric value:
\* an object lists such keys first, in ascending numeric order, and its
\* other string keys after them in insertion order
ArrayIndexValue == ("7" :> 7) @@ ("10" :> 10)
IsArrayIndex(key) == key \in DOMAIN ArrayIndexValue

\* array.reduce((sum, s) => sum + (s[field] || 0), 0)
RECURSIVE SumOf(_, _)
SumOf(seq, field) ==
    IF seq = <<>> THEN 0
    ELSE SumOf(SubSeq(seq, 1, Len(seq) - 1), field) + seq[Len(seq)][field]

\* the values of seq in order of first occurrence: the order in which
\* forEach inserts them as keys
RECURSIVE FirstOccurrences(_)
FirstOccurrences(seq) ==
    IF seq = <<>> THEN <<>>
    ELSE LET front == FirstOccurrences(SubSeq(seq, 1, Len(seq) - 1))
             x == seq[Len(seq)]
         IN  IF \E k \in DOMAIN front : front[k] = x THEN front
             ELSE Append(front, x)

\* the array-index keys of a set in ascending numeric order
RECURSIVE AscendingIndexKeys(_)
AscendingIndexKeys(keys) ==
    IF keys = {} THEN <<>>
    ELSE LET k == CHOOSE x \in keys :
                    \A y \in keys : ArrayIndexValue[x] <= ArrayIndexValue[y]
         IN  <<k>> \o AscendingIndexKeys(keys \ {k})

\* Object.entries / Object.keys of an object whose keys were inserted in
\* the order inserted (each once)
ObjectKeys(inserted) ==
    AscendingIndexKeys({inserted[k] : k \in {j \in DOMAIN inserted :
                                                IsArrayIndex(inserted[j])}})
        \o SelectSeq(inserted, LAMBDA key : ~IsArrayIndex(key))

\* array.sort((a, b) => b[field] - a[field]): descending by field, stable
RECURSIVE SortDescending(_, _)
SortDescending(seq, field) ==
    IF seq = <<>> THEN <<>>
    ELSE LET sorted == SortDescending(SubSeq(seq, 1, Len(seq) - 1), field)
             x == seq[Len(seq)]
             k == Cardinality({i \in DOMAIN sorted : sorted[i][field] >= x[field]})
         IN  SubSeq(sorted, 1, k) \o <<x>> \o SubSeq(sorted, k + 1, Len(sorted))

\* the same sort with the comparator reversed
RECURSIVE SortAscending(_, _)
SortAscending(seq, field) ==
    IF seq = <<>> THEN <<>>
    ELSE LET sorted == SortAscending(SubSeq(seq, 1, Len(seq) - 1), field)
             x == seq[Len(seq)]
             k == Cardinality({i \in DOMAIN sorted : sorted[i][field] <= x[field]})
         IN  SubSeq(sorted, 1, k) \o <<x>> \o SubSeq(sorted, k + 1, Len(sorted))

\* startTime.toISOString().substring(0, 7), as the number of the month
MonthOf(t) == t \div TicksPerMonth

\* a find that selects the user's sessions of every status
allSessions_AnyStatus(store, userId) ==
    SelectSeq(store, LAMBDA doc : doc.userId = userId)

\* ChargingSession.find({userId, status: {$in: ["completed", "cancelled"]}})
allSessions(store, userId) ==
    SelectSeq(store, LAMBDA doc : /\ doc.userId = userId
                                  /\ doc.status \in {"completed", "cancelled"})

\* Object.entries(stationCounts): one [stationId, count] per station
stationCounts(all) ==
    LET keys == ObjectKeys(FirstOccurrences([k \in DOMAIN all |-> all[k].stationId]))
    IN  [k \in DOMAIN keys |->
            [key |-> keys[k],
             count |-> Cardinality({j \in DOMAIN all : all[j].stationId = keys[k]})]]

\* the stations sorted by ascending count
sortedStations_Ascending(all) == SortAscending(stationCounts(all), "count")

sortedStations(all) == SortDescending(stationCounts(all), "count")

\* sortedStations[0][0], undefined when there is no station
favoriteStation(all) ==
    LET sorted == sortedStations(all)
    IN  IF Len(sorted) > 0 THEN {sorted[1].key} ELSE {}

\* Object.entries(monthlyUsageMap) mapped to {month, sessions, energyUsed,
\* totalSpent}; the keys are YYYY-MM strings, listed in insertion order
monthlyUsageMap(all) ==
    LET months == FirstOccurrences([k \in DOMAIN all |-> MonthOf(all[k].startTime)])
    IN  [k \in DOMAIN months |->
            LET ofMonth == SelectSeq(all, LAMBDA doc : MonthOf(doc.startTime) = months[k])
            IN  [month |-> months[k],
                 sessions |-> Len(ofMonth),
                 energyUsed |-> SumOf(ofMonth, "energyDelivered"),
                 totalSpent |-> SumOf(ofMonth, "totalCost")]]

\* the monthly usage sorted by ascending month before the slice
monthlyUsage_OldestFirst(all) ==
    LET sorted == SortAscending(monthlyUsageMap(all), "month")
    IN  SubSeq(sorted, 1, Min(MonthsKept, Len(sorted)))

\* .sort((a, b) => b.month.localeCompare(a.month)).slice(0, 12)
monthlyUsage(all) ==
    LET sorted == SortDescending(monthlyUsageMap(all), "month")
    IN  SubSeq(sorted, 1, Min(MonthsKept, Len(sorted)))

\* getUserStats
getUserStats(userId) ==
    LET all == allSessions(sessions, userId)
        totalSessions == Len(all)
        totalDuration == SumOf(all, "duration")
    IN  /\ last' = Returned("getUserStats", userId, NoRequest, "ok",
              {[totalSessions |-> totalSessions,
                totalEnergyUsed |-> SumOf(all, "energyDelivered"),
                totalSpent |-> SumOf(all, "totalCost"),
                averageSessionDuration |->
                    IF totalSessions > 0 THEN Rat(totalDuration, totalSessions)
                    ELSE RatZero,
                favoriteStation |-> favoriteStation(all),
                monthlyUsage |-> monthlyUsage(all)]})
        /\ UNCHANGED <<sessions, directory, now, inflight>>

\* the wall clock advances by step ticks
Tick(step) ==
    /\ now + step <= MaxNow
    /\ now' = now + step
    /\ UNCHANGED <<sessions, directory, inflight, last>>

\* the wall clock advances by an hour
TickHour ==
    /\ now + TicksPerHour <= MaxHours * TicksPerHour + MaxNow
    /\ now' = now + TicksPerHour
    /\ UNCHANGED <<sessions, directory, inflight, last>>

\* a release with a different COMPANY_CHARGING_STATIONS goes live
DirectoryChange(dir) ==
    /\ dir # directory
    /\ directory' = dir
    /\ UNCHANGED <<sessions, now, inflight, last>>

Init ==
    /\ sessions = <<>>
    /\ directory = COMPANY_CHARGING_STATIONS
    /\ now = 0
    /\ inflight = [slot \in Slots |-> {}]
    /\ last = Returned("none", "u1", NoRequest, "ok", {})

\* the session lifecycle of several users; every operation runs to
\* completion before the next one starts
Next ==
    \/ Tick(TicksPerMinute)
    \/ \E u \in Users, req \in LifecycleStartRequests : Start(u, req, MaxSessions)
    \/ \E u \in Users, req \in LifecycleUpdateRequests : Update(u, req)
    \/ \E u \in Users, req \in LifecycleEndRequests : End(u, req)
    \/ \E u \in Users : GetActive(u)

Spec == Init /\ [][Next]_vars

\* one session of one user under every telemetry; every operation runs to
\* completion before the next one starts
NextTelemetry ==
    \/ Tick(1)
    \/ \E req \in StartRequests : Start("u1", req, 1)
    \/ \E req \in UpdateRequests : Update("u1", req)
    \/ \E req \in EndRequests : End("u1", req)
    \/ GetActive("u1")

SpecTelemetry == Init /\ [][NextTelemetry]_vars

\* the lifecycle with Start calls that may be suspended between their
\* findOne and their save
NextConc ==
    \/ Tick(TicksPerMinute)
    \/ \E slot \in Slots, u \in Users, req \in LifecycleStartRequests :
          StartLookup(slot, u, req)
    \/ \E slot \in Slots : StartSave(slot)
    \/ \E u \in Users, req \in LifecycleUpdateRequests : Update(u, req)
    \/ \E u \in Users, req \in LifecycleEndRequests : End(u, req)
    \/ \E u \in Users : GetActive(u)

SpecConc == Init /\ [][NextConc]_vars

\* ---- stores for the statistics: the sessions of months 1..MaxMonths
\* the station a session of month m is at
StatsStation(m) == IF m % 3 = 1 THEN "s1" ELSE IF m % 3 = 2 THEN "10" ELSE "7"

StatsStartRequest(stationId) ==
    [stationId |-> stationId, connectorId |-> "c1", connectorType |-> {"CCS"},
     batteryLevelStart |-> 30 * PCT, station |-> [StationA EXCEPT !.id = stationId]]

\* the session a user started at station stationId at minute k of month m
\* and ended 1 or 2 minutes later, with a final battery level in odd months
CompletedSession(userId, stationId, m, k) ==
    LET t == m * TicksPerMonth + k * TicksPerMinute
    IN  EndedSession(NewSession(userId, StatsStartRequest(stationId), t),
                     [sessionId |-> 1,
                      batteryLevelEnd |-> IF m % 2 = 1 THEN {90 * PCT} ELSE {},
                      stationRating |-> {}],
                     t + (1 + (m % 2)) * TicksPerMinute)

\* the sessions of month m: one, and a second one at station s1 in every
\* fourth month
SessionsOfMonth(userId, m) ==
    <<CompletedSession(userId, StatsStation(m), m, 0)>>
        \o (IF m % 4 = 0 THEN <<CompletedSession(userId, "s1", m, 5)>> ELSE <<>>)

\* the sessions of the months of a set up to month m, oldest first
RECURSIVE SessionsOfMonths(_, _, _)
SessionsOfMonths(userId, months, m) ==
    IF m = 0 THEN <<>>
    ELSE SessionsOfMonths(userId, months, m - 1)
            \o (IF m \in months THEN SessionsOfMonth(userId, m) ELSE <<>>)

\* a store in month MaxMonths + 1: a completed session of u2, the completed
\* sessions u1 has from the months of a set, and the Active session of u1, a
\* minute old and updated once
StatsStore(months) ==
    LET t == (MaxMonths + 1) * TicksPerMonth
    IN  <<CompletedSession("u2", "s1", 0, 0)>>
            \o SessionsOfMonths("u1", months, MaxMonths)
            \o <<UpdatedSession(NewSession("u1", StatsStartRequest("s1"), t),
                                CHOOSE req \in LifecycleUpdateRequests : TRUE,
                                t + TicksPerMinute)>>

InitStats ==
    /\ \E months \in SUBSET (1..MaxMonths) : sessions = StatsStore(months)
    /\ directory = COMPANY_CHARGING_STATIONS
    /\ now = (MaxMonths + 1) * TicksPerMonth + TicksPerMinute
    /\ inflight = [slot \in Slots |-> {}]
    /\ last = Returned("none", "u1", NoRequest, "ok", {})

\* the statistics of the users over such a store
NextStats == \E u \in Users : getUserStats(u)

SpecStats == InitStats /\ [][NextStats]_vars

\* the valid Start requests of the directory specification: at station A,
\* whose snapshot carries a price, and at station B, whose snapshot has none
DirectoryStartRequests ==
    {r \in StartRequests : /\ r.station \in {StationA, StationB}
                            /\ r.batteryLevelStart = 30 * PCT
                            /\ r.connectorType # {""}
                            /\ StartOutcome(r, {}) = "ok"}

\* the lifecycle while releases change the station directory
NextDirectory ==
    \/ Tick(TicksPerMinute)
    \/ \E u \in Users, req \in DirectoryStartRequests : Start(u, req, MaxSessions)
    \/ \E u \in Users, req \in LifecycleUpdateRequests : Update(u, req)
    \/ \E u \in Users, req \in LifecycleEndRequests : End(u, req)
    \/ \E dir \in Directories : DirectoryChange(dir)

SpecDirectory == Init /\ [][NextDirectory]_vars

\* the Start requests of the long sessions: valid ones at stations A and B
\* from 30 %, at station A from 20 %, at the station with negative power
LongStartRequests ==
    DirectoryStartRequests
    \cup
    {[stationId |-> "s1", connectorId |-> "c1", connectorType |-> {"CCS"},
      batteryLevelStart |-> 20 * PCT, station |-> StationA],
     [stationId |-> "s5", connectorId |-> "c1", connectorType |-> {"CCS"},
      batteryLevelStart |-> 30 * PCT, station |-> StationReverse]}

\* one session of one user that may stay Active for hours
NextLong ==
    \/ Tick(TicksPerMinute)
    \/ TickHour
    \/ \E req \in LongStartRequests : Start("u1", req, 1)
    \/ \E req \in UpdateRequests : Update("u1", req)
    \/ \E req \in EndRequests : End("u1", req)
    \/ GetActive("u1")

SpecLong == Init /\ [][NextLong]_vars

\* the requests of the overlapping calls: Start at station A, telemetry with
\* a battery level above the start level, with and without energyDelivered
OverlapStartRequests == {r \in DirectoryStartRequests : r.station = StationA}
OverlapUpdateRequests ==
    {r \in UpdateRequests : /\ r.batteryLevel \subseteq {5234, 100 * PCT}
                            /\ r.energyDelivered # {0}}

\* one session of one user with Update calls that may be suspended between
\* their findOne and their save, next to each other and to End
NextOverlap ==
    \/ Tick(TicksPerMinute)
    \/ \E req \in OverlapStartRequests : Start("u1", req, 1)
    \/ \E slot \in Slots, req \in OverlapUpdateRequests : UpdateLookup(slot, "u1", req)
    \/ \E slot \in Slots : UpdateSave(slot)
    \/ \E req \in LifecycleEndRequests : End("u1", req)

SpecOverlap == Init /\ [][NextOverlap]_vars

\* ------------------------------------------------------------ vocabulary
ActiveCount(userId) == Cardinality(ActiveIdsOf(sessions, userId))

\* this step is the return of a call of operation op
Called(op) == last' # last /\ last'.op = op

\* a Start request that passes the validation of the station snapshot
ValidStart(req) ==
    /\ req.station.id = req.stationId
    /\ \/ req.connectorType \notin {{}, {""}}
             /\ req.connectorType \subseteq req.station.connectorTypes
       \/ req.connectorType \in {{}, {""}}
             /\ req.connectorId \in req.station.connectorTypes

\* ------------------------------------------------------------------ C1
\* C1: in every reachable state each user has at most one session with
\* status Active, also when two Start calls of one user both run their
\* lookup before either saves.
C1_OneActivePerUser == \A u \in Users : ActiveCount(u) <= 1

\* ------------------------------------------------------------------ C2
\* C2: with operations executed one at a time, a Start by a user who has an
\* Active session fails with the conflict error and creates no session, and
\* a Start with a valid station snapshot by a user who has no Active session
\* (none yet, or the last one ended by End) succeeds and creates the user's
\* Active session.
C2_StartConflictUntilEnd ==
    [][\A u \in Users :
          (Called("start") /\ last'.user = u) =>
              IF ActiveIdsOf(sessions, u) # {}
              THEN last'.outcome = "conflict" /\ sessions' = sessions
              ELSE ValidStart(last'.req) =>
                      /\ last'.outcome = "ok"
                      /\ Len(sessions') = Len(sessions) + 1
                      /\ ActiveIdsOf(sessions', u) = {Len(sessions')}]_vars

\* a Start was refused for a user whose Active session was started after an
\* earlier session of that user had been ended
C2_Witness ==
    /\ last.op = "start" /\ last.outcome = "conflict"
    /\ \E i, j \in DOMAIN sessions :
          /\ i < j
          /\ sessions[i].userId = last.user /\ sessions[i].status = "completed"
          /\ sessions[j].userId = last.user /\ sessions[j].status = "active"

\* ------------------------------------------------------------------ C3
\* C3: a successful Update never lowers the stored energyDelivered or the
\* stored batteryLevel of a session, whatever telemetry it carries.
C3_UpdateNeverLowers ==
    [][\A i \in DOMAIN sessions :
          (Called("update") /\ last'.outcome = "ok") =>
              /\ sessions'[i].energyDelivered >= sessions[i].energyDelivered
              /\ sessions'[i].batteryLevel >= sessions[i].batteryLevel]_vars

\* ------------------------------------------------------------------ C4
\* C4: every stored session has batteryLevel >= batteryLevelStart, after
\* Start, after every Update and after End with any batteryLevelEnd.
C4_LevelAtLeastStart ==
    \A i \in DOMAIN sessions :
        sessions[i].batteryLevel >= sessions[i].batteryLevelStart

\* ------------------------------------------------------------------ C5
\* C5: a stored session has endTime set if and only if its status is
\* Completed or Cancelled.
C5_EndTimeIffTerminal ==
    \A i \in DOMAIN sessions :
        (sessions[i].endTime # {}) <=> (sessions[i].status \in {"completed", "cancelled"})

\* an ended session beside a session that Update has just saved
C5_Witness ==
    /\ last.op = "update" /\ last.outcome = "ok"
    /\ \E i, j \in DOMAIN sessions :
          /\ sessions[i].status = "completed" /\ sessions[i].endTime # {}
          /\ sessions[j].status = "active" /\ sessions[j].endTime = {}
          /\ sessions[j].energyDelivered > 0

\* ------------------------------------------------------------------ C6
\* C6: a session that End has completed stays Completed; every later End
\* naming it fails with the not-found error, and every later Update by its
\* user fails with the not-found error while that user has no Active session.
C6_CompletedIsFinal ==
    [][\A i \in DOMAIN sessions :
          sessions[i].status = "completed" =>
              /\ sessions'[i].status = "completed"
              /\ (Called("end") /\ last'.req.sessionId = i)
                    => (last'.outcome = "notfound" /\ sessions' = sessions)
              /\ (Called("update") /\ last'.user = sessions[i].userId
                    /\ ActiveIdsOf(sessions, sessions[i].userId) = {})
                    => (last'.outcome = "notfound" /\ sessions' = sessions)]_vars

\* the owner of a completed session called End on it again and was refused
C6_Witness ==
    /\ last.op = "end" /\ last.outcome = "notfound"
    /\ last.req.sessionId \in DOMAIN sessions
    /\ sessions[last.req.sessionId].status = "completed"
    /\ sessions[last.req.sessionId].userId = last.user

\* ------------------------------------------------------------------ C7
\* C7: after a successful Update on a session with snapshotted price p the
\* stored totalCost equals the stored energyDelivered times p.
C7_CostIsEnergyTimesPrice ==
    (last.op = "update" /\ last.outcome = "ok") =>
        \A r \in last.data :
            LET doc == sessions[r.id]
            IN  doc.stationPricePerKWh # {} =>
                    doc.totalCost = doc.energyDelivered
                        * OrElse(doc.stationPricePerKWh, 0) * (NAIRA \div KWH)

\* ------------------------------------------------------------------ C8
\* C8: after a successful Update the stored averagePower equals the stored
\* energyDelivered divided by the stored duration in hours when the duration
\* is at least one minute, and 0 when the duration is 0.
C8_PowerIsEnergyOverHours ==
    (last.op = "update" /\ last.outcome = "ok") =>
        \A r \in last.data :
            LET doc == sessions[r.id]
            IN  IF doc.duration >= 1
                THEN doc.averagePower
                        = Rat(doc.energyDelivered, doc.duration * (KWH \div 60))
                ELSE doc.averagePower = RatZero

\* ------------------------------------------------------------------ C9
\* the derivation formula for a session at the instant t, in the units and
\* with the rounding of the stored fields:
\* energy = rated power * elapsed hours * 0.9
FormulaEnergy(doc, t) ==
    doc.stationPowerOutput * DurationMinutes(doc, t) * EfficiencyPct
\* batteryLevel = min(100, batteryLevelStart + energy / 60 * 100), scaled by 36
FormulaLevel36(doc, energy) ==
    Min(100 * PCT * 36, doc.batteryLevelStart * 36 + energy)
Round2Energy(energy) == 60 * RoundDiv(energy, 60)
Round1Level36(level36) == 10 * RoundDiv(level36, 360)

\* C9: Update stores batteryLevel = max(caller batteryLevel, formula
\* batteryLevel) and energyDelivered = max(caller energyDelivered, formula
\* energy), or the formula energy when the caller omits energyDelivered
\* (the formula's values taken exactly or with the rounding of the stored
\* fields, whichever fits).
C9_StoresMaxOfCallerAndFormula ==
    [][(Called("update") /\ last'.outcome = "ok") =>
          \A r \in last'.data :
              LET old == sessions[r.id]
                  new == sessions'[r.id]
                  req == last'.req
                  energy == FormulaEnergy(old, now)
                  level36 == FormulaLevel36(old, energy)
                  callerLevel == OrElse(req.batteryLevel, 0)
                  callerEnergy == OrElse(req.energyDelivered, 0)
              IN  /\ \/ new.batteryLevel * 36 = Max(callerLevel * 36, level36)
                     \/ new.batteryLevel = Max(callerLevel, Round1Level36(level36))
                  /\ \/ new.energyDelivered = Max(callerEnergy, energy)
                     \/ new.energyDelivered = Max(callerEnergy, Round2Energy(energy))]_vars

\* C9 as amended: the time-derived values take the stored values into
\* account.  With rated power > 0 and at least one whole minute elapsed they
\* are e = max(formula energy, stored energyDelivered) rounded to 0.01 kWh
\* and max(min(100, batteryLevelStart + e / 60 * 100), stored batteryLevel)
\* rounded to 0.1 (e unrounded); otherwise they are the stored values.
C9_StoresMaxOfCallerFormulaAndStored ==
    [][(Called("update") /\ last'.outcome = "ok") =>
          \A r \in last'.data :
              LET old == sessions[r.id]
                  new == sessions'[r.id]
                  req == last'.req
                  live == old.stationPowerOutput > 0 /\ DurationMinutes(old, now) >= 1
                  e == Max(FormulaEnergy(old, now), old.energyDelivered)
                  energy == IF live THEN Round2Energy(e) ELSE old.energyDelivered
                  level == IF live
                           THEN Round1Level36(Max(FormulaLevel36(old, e),
                                                  old.batteryLevel * 36))
                           ELSE old.batteryLevel
              IN  /\ new.batteryLevel = Max(OrElse(req.batteryLevel, 0), level)
                  /\ new.energyDelivered =
                        IF req.energyDelivered = {} THEN energy
                        ELSE Max(OrElse(req.energyDelivered, 0), energy)]_vars

\* an Update without energyDelivered, a minute or more into a session at a
\* station with rated power, left a stored energy above the formula's
C9_Witness ==
    /\ last.op = "update" /\ last.outcome = "ok"
    /\ last.req.energyDelivered = {}
    /\ \E r \in last.data :
          LET doc == sessions[r.id]
          IN  /\ doc.stationPowerOutput > 0 /\ doc.duration >= 1
              /\ doc.energyDelivered
                    > doc.stationPowerOutput * doc.duration * EfficiencyPct

\* ------------------------------------------------------------------ C10
\* C10: an Update by a user who has no Active session, and an End whose
\* sessionId does not name an Active session of the caller, fail with the
\* not-found error and leave every stored session unchanged.
C10_NotFoundChangesNothing ==
    [][/\ (Called("update") /\ ActiveIdsOf(sessions, last'.user) = {})
            => (last'.outcome = "notfound" /\ last'.data = {} /\ sessions' = sessions)
       /\ (Called("end") /\ last'.req.sessionId \notin ActiveIdsOf(sessions, last'.user))
            => (last'.outcome = "notfound" /\ last'.data = {} /\ sessions' = sessions)]_vars

\* End was refused for a caller who named the Active session of another
\* user while having a session of their own in the store
C10_Witness ==
    /\ last.op = "end" /\ last.outcome = "notfound"
    /\ last.req.sessionId \in DOMAIN sessions
    /\ sessions[last.req.sessionId].status = "active"
    /\ sessions[last.req.sessionId].userId # last.user
    /\ \E i \in DOMAIN sessions : sessions[i].userId = last.user

C12_GetActiveReadsOnly ==
    [][(last'.op = "getActive") =>
          /\ sessions' = sessions
          /\ (last'.data = {}) <=> (ActiveIdsOf(sessions, last'.user) = {})
          /\ (/\ last.op = "getActive" /\ last.user = last'.user
               /\ last.req.at = now /\ last'.req.at = now)
                => last'.data = last.data]_vars

\* GetActive returned an Active session with a derived energy above the
\* stored one, which is still what the store holds
C12_Witness ==
    /\ last.op = "getActive" /\ last.req.at = now
    /\ \E r \in last.data :
          /\ sessions[r.id].status = "active"
          /\ r.doc.energyDelivered > sessions[r.id].energyDelivered
          /\ r.doc.batteryLevel > sessions[r.id].batteryLevel

\* ------------------------------------------------------------------ C13
\* the price per kWh End bills a session at: the snapshotted price when it
\* is positive, otherwise the price the directory lists for the station,
\* otherwise 165
BillingPrice(doc) ==
    IF doc.stationPricePerKWh # {} /\ OrElse(doc.stationPricePerKWh, 0) > 0
    THEN OrElse(doc.stationPricePerKWh, 0)
    ELSE IF OrElse(CompanyStationPrice(doc.stationId), 0) # 0
         THEN OrElse(CompanyStationPrice(doc.stationId), 0)
         ELSE DefaultPricePerKWh

\* C13: an End with batteryLevelEnd = b > batteryLevelStart on a session
\* whose stored energyDelivered is exactly 0 stores (and returns)
\* energyDelivered = (b - batteryLevelStart) / 100 * 60 kWh and a totalCost
\* that is this energy times the price End bills at.
C13_EndEstimatesFromBattery ==
    [][(Called("end") /\ last'.outcome = "ok") =>
          \A r \in last'.data :
              LET old == sessions[r.id]
                  new == sessions'[r.id]
                  b == OrElse(last'.req.batteryLevelEnd, 0)
              IN  (/\ last'.req.batteryLevelEnd # {}
                   /\ b > old.batteryLevelStart
                   /\ old.energyDelivered = 0) =>
                      /\ new.energyDelivered
                            = (b - old.batteryLevelStart)
                                * ((BatteryCapacityKWh * KWH) \div (100 * PCT))
                      /\ new.totalCost
                            = new.energyDelivered * BillingPrice(old) * (NAIRA \div KWH)
                      /\ r.doc.energyDelivered = new.energyDelivered
                      /\ r.doc.totalCost = new.totalCost]_vars

\* End with batteryLevelEnd 90 completed a session started at 30 % with no
\* energy recorded: 36 kWh, billed at the snapshotted 165 per kWh
C13_Witness ==
    /\ last.op = "end" /\ last.outcome = "ok"
    /\ last.req.batteryLevelEnd = {90 * PCT}
    /\ \E r \in last.data :
          /\ sessions[r.id].status = "completed"
          /\ sessions[r.id].batteryLevelStart = 30 * PCT
          /\ sessions[r.id].stationPricePerKWh = {165}
          /\ sessions[r.id].energyDelivered = 36 * KWH
          /\ sessions[r.id].totalCost = 36 * 165 * NAIRA

\* ------------------------------------------------------------------ C14
\* C14: after a successful End of a session that carries a snapshotted
\* price p >= 0 (0 included), the stored totalCost equals the final stored
\* energyDelivered times p.
C14_EndCostIsEnergyTimesSnapshotPrice ==
    (last.op = "end" /\ last.outcome = "ok") =>
        \A r \in last.data :
            LET doc == sessions[r.id]
                p == OrElse(doc.stationPricePerKWh, 0)
            IN  (doc.stationPricePerKWh # {} /\ p >= 0) =>
                    doc.totalCost = doc.energyDelivered * p * (NAIRA \div KWH)

\* ------------------------------------------------------------------ C15
\* C15: for a session without a snapshotted price, the session returned by
\* a successful Update, GetActive or End has totalCost = energyDelivered
\* times the default price of 165 per kWh.
C15_DefaultPriceWithoutSnapshot ==
    (last.op \in {"update", "getActive", "end"} /\ last.outcome = "ok") =>
        \A r \in last.data :
            r.doc.stationPricePerKWh = {} =>
                r.doc.totalCost
                    = r.doc.energyDelivered * DefaultPricePerKWh * (NAIRA \div KWH)

\* ------------------------------------------------------------------ C16
\* two stored sessions that record the same operations at the same instants:
\* they agree on every field but the owner and the totalCost
SameRun(a, b) ==
    [a EXCEPT !.userId = "u1", !.totalCost = 0]
        = [b EXCEPT !.userId = "u1", !.totalCost = 0]

\* C16: billing depends only on what was snapshotted at Start: two sessions
\* that went through the same operations at the same instants and differ
\* only in what the station directory contained after their Start have the
\* same totalCost, after Update and after End.
C16_BillingIgnoresDirectory ==
    \A i, j \in DOMAIN sessions :
        SameRun(sessions[i], sessions[j])
            => sessions[i].totalCost = sessions[j].totalCost

\* ------------------------------------------------------------------ C17
\* the ids of the stored sessions of a user that are Completed or Cancelled
TerminalIdsOf(userId) ==
    {i \in DOMAIN sessions : /\ sessions[i].userId = userId
                             /\ sessions[i].status \in {"completed", "cancelled"}}

\* the sum of a field over a set of stored sessions
RECURSIVE SumOver(_, _)
SumOver(ids, field) ==
    IF ids = {} THEN 0
    ELSE LET i == CHOOSE x \in ids : TRUE
         IN  sessions[i][field] + SumOver(ids \ {i}, field)

\* C17: Compute(userId) changes no stored session and returns the count of
\* the user's Completed and Cancelled sessions, the sums of their
\* energyDelivered and totalCost, and the sum of their durations divided by
\* the count (0 when there is none); Active sessions and the sessions of
\* other users contribute nothing.
C17_StatsFoldTerminalSessions ==
    [][Called("getUserStats") =>
          /\ sessions' = sessions
          /\ \A st \in last'.data :
                LET ids == TerminalIdsOf(last'.user)
                IN  /\ st.totalSessions = Cardinality(ids)
                    /\ st.totalEnergyUsed = SumOver(ids, "energyDelivered")
                    /\ st.totalSpent = SumOver(ids, "totalCost")
                    /\ st.averageSessionDuration =
                          IF ids = {} THEN RatZero
                          ELSE Rat(SumOver(ids, "duration"), Cardinality(ids))]_vars

\* Compute returned the totals of three or more completed sessions of a user
\* who also has an Active session with energy and duration, in a store that
\* holds a completed session of another user
C17_Witness ==
    /\ last.op = "getUserStats"
    /\ \E st \in last.data :
          /\ st.totalSessions >= 3
          /\ st.totalEnergyUsed > 0 /\ st.totalSpent > 0
          /\ st.averageSessionDuration.d > 1
    /\ \E i \in ActiveIdsOf(sessions, last.user) :
          sessions[i].energyDelivered > 0 /\ sessions[i].duration > 0
    /\ \E i \in DOMAIN sessions :
          sessions[i].userId # last.user /\ sessions[i].status = "completed"

\* ------------------------------------------------------------------ C18
\* the number of a user's Completed and Cancelled sessions at a station
StationCount(userId, stationId) ==
    Cardinality({i \in TerminalIdsOf(userId) : sessions[i].stationId = stationId})

\* the stations with the highest count among those sessions
TopStations(userId) ==
    {sessions[i].stationId : i \in
        {j \in TerminalIdsOf(userId) :
            \A k \in TerminalIdsOf(userId) :
                StationCount(userId, sessions[k].stationId)
                    <= StationCount(userId, sessions[j].stationId)}}

\* the position of the first of those sessions at a station
FirstSeen(userId, stationId) ==
    CHOOSE i \in TerminalIdsOf(userId) :
        /\ sessions[i].stationId = stationId
        /\ \A j \in TerminalIdsOf(userId) :
              sessions[j].stationId = stationId => i <= j

\* C18: favoriteStation is absent exactly when the user has no Completed or
\* Cancelled session; otherwise it is a station with the highest count, and
\* among the stations with that count the one encountered first in the
\* order of the sessions.
C18_FavoriteIsFirstSeenTop ==
    (last.op = "getUserStats") =>
        \A st \in last.data :
            /\ (st.favoriteStation = {}) <=> (TerminalIdsOf(last.user) = {})
            /\ \A f \in st.favoriteStation :
                  /\ f \in TopStations(last.user)
                  /\ \A g \in TopStations(last.user) :
                        FirstSeen(last.user, f) <= FirstSeen(last.user, g)

\* station a comes before station b in the key order of the count table
KeyOrderBefore(userId, a, b) ==
    IF IsArrayIndex(a) /\ IsArrayIndex(b)
    THEN ArrayIndexValue[a] <= ArrayIndexValue[b]
    ELSE IF IsArrayIndex(a) \/ IsArrayIndex(b) THEN IsArrayIndex(a)
    ELSE FirstSeen(userId, a) <= FirstSeen(userId, b)

\* C18 as amended: among the stations with the highest count the favourite
\* is the first in the key order of the count table: station ids that are
\* canonical array indices ("7", "10") in ascending numeric order, then the
\* other ids in the order in which the sessions first mention them.
C18_FavoriteIsFirstKeyTop ==
    (last.op = "getUserStats") =>
        \A st \in last.data :
            /\ (st.favoriteStation = {}) <=> (TerminalIdsOf(last.user) = {})
            /\ \A f \in st.favoriteStation :
                  /\ f \in TopStations(last.user)
                  /\ \A g \in TopStations(last.user) :
                        KeyOrderBefore(last.user, f, g)

\* Compute chose between three stations with the same highest count, of
\* which the one the sessions mention first has an id that is no array index
C18_Witness ==
    /\ last.op = "getUserStats"
    /\ Cardinality(TopStations(last.user)) = 3
    /\ \E st \in last.data :
          /\ st.favoriteStation = {"7"}
          /\ FirstSeen(last.user, "s1") < FirstSeen(last.user, "10")
          /\ FirstSeen(last.user, "10") < FirstSeen(last.user, "7")
          /\ StationCount(last.user, "7") >= 2

\* ------------------------------------------------------------------ C19
\* the months in which the user's Completed and Cancelled sessions started
MonthsOf(userId) ==
    {MonthOf(sessions[i].startTime) : i \in TerminalIdsOf(userId)}

\* those sessions of one month
IdsOfMonth(userId, month) ==
    {i \in TerminalIdsOf(userId) : MonthOf(sessions[i].startTime) = month}

\* C19: monthlyUsage has one entry per distinct month of startTime among the
\* user's Completed and Cancelled sessions, holding that month's session
\* count, energy sum and spend sum; the entries are in strictly descending
\* month order and there are at most 12, the 12 most recent months when more
\* exist.
C19_MonthlyUsageLatestTwelve ==
    (last.op = "getUserStats") =>
        \A st \in last.data :
            LET usage == st.monthlyUsage
                listed == {usage[k].month : k \in DOMAIN usage}
            IN  /\ Len(usage) = Min(12, Cardinality(MonthsOf(last.user)))
                /\ listed \subseteq MonthsOf(last.user)
                /\ \A k \in DOMAIN usage : \A j \in DOMAIN usage :
                      k < j => usage[k].month > usage[j].month
                /\ \A m \in MonthsOf(last.user) \ listed :
                      \A k \in DOMAIN usage : m < usage[k].month
                /\ \A k \in DOMAIN usage :
                      LET ids == IdsOfMonth(last.user, usage[k].month)
                      IN  /\ usage[k].sessions = Cardinality(ids)
                          /\ usage[k].energyUsed = SumOver(ids, "energyDelivered")
                          /\ usage[k].totalSpent = SumOver(ids, "totalCost")

\* Compute returned 12 months for a user with sessions in more than 12, one
\* of the listed months holding two sessions
C19_Witness ==
    /\ last.op = "getUserStats"
    /\ Cardinality(MonthsOf(last.user)) > 12
    /\ \E st \in last.data :
          /\ Len(st.monthlyUsage) = 12
          /\ \E k \in DOMAIN st.monthlyUsage : st.monthlyUsage[k].sessions = 2

\* ------------------------------------------------------------------ C20
\* C20: energyDelivered, totalCost, averagePower and duration of every
\* stored session are >= 0 in every reachable state, for every station
\* snapshot that Start accepts and every telemetry that Update and End
\* accept.
C20_StoredAmountsNonNegative ==
    \A i \in DOMAIN sessions :
        /\ sessions[i].energyDelivered >= 0
        /\ sessions[i].totalCost >= 0
        /\ sessions[i].averagePower.n >= 0
        /\ sessions[i].duration >= 0

\* ------------------------------------------------------------------ C21
\* C21: 0 <= batteryLevel <= 100 for every stored session and for every
\* session GetActive returns, in every reachable state, however long the
\* session stays Active.
C21_BatteryLevelWithinRange ==
    /\ \A i \in DOMAIN sessions :
          0 <= sessions[i].batteryLevel /\ sessions[i].batteryLevel <= 100 * PCT
    /\ (last.op = "getActive") =>
          \A r \in last.data :
              0 <= r.doc.batteryLevel /\ r.doc.batteryLevel <= 100 * PCT

\* GetActive returned a battery level of 100 for a session whose stored
\* level is lower and whose start level plus derived increase is above 100
C21_Witness ==
    /\ last.op = "getActive" /\ last.req.at = now
    /\ \E r \in last.data :
          /\ r.doc.batteryLevel = 100 * PCT
          /\ sessions[r.id].batteryLevel < 100 * PCT
          /\ r.doc.batteryLevelStart * ((BatteryCapacityKWh * KWH) \div (100 * PCT))
                 + r.doc.energyDelivered > BatteryCapacityKWh * KWH

\* ------------------------------------------------------------------ C22
\* a session that carries no telemetry: the values Start stored
NoTelemetry(doc) ==
    /\ doc.energyDelivered = 0
    /\ doc.batteryLevel = doc.batteryLevelStart
    /\ doc.averagePower = RatZero
    /\ doc.totalCost = 0

\* C22 (as stated): for an Active session without persisted telemetry, rated
\* power P > 0 and m >= 1 elapsed minutes, GetActive returns exactly
\* energyDelivered = P x (m/60) x 0.9 and batteryLevel = min(100,
\* batteryLevelStart + energyDelivered/60 x 100); when P <= 0 or m = 0 it
\* returns the stored energyDelivered, batteryLevel, averagePower, totalCost.
C22_GetActiveReturnsFormulaValues ==
    [][Called("getActive") =>
        \A r \in last'.data :
            LET doc == sessions[r.id]
                m == DurationMinutes(doc, now)
            IN  IF doc.stationPowerOutput > 0 /\ m >= 1
                THEN NoTelemetry(doc) =>
                       /\ r.doc.energyDelivered = FormulaEnergy(doc, now)
                       /\ r.doc.batteryLevel * ((BatteryCapacityKWh * KWH) \div (100 * PCT))
                            = FormulaLevel36(doc, FormulaEnergy(doc, now))
                ELSE /\ r.doc.energyDelivered = doc.energyDelivered
                     /\ r.doc.batteryLevel = doc.batteryLevel
                     /\ r.doc.averagePower = doc.averagePower
                     /\ r.doc.totalCost = doc.totalCost]_vars

\* C22 (amended): the same, with the returned energyDelivered rounded to 2
\* decimals and the returned batteryLevel rounded to 1 decimal.
C22_GetActiveReturnsRoundedFormulaValues ==
    [][Called("getActive") =>
        \A r \in last'.data :
            LET doc == sessions[r.id]
                m == DurationMinutes(doc, now)
            IN  IF doc.stationPowerOutput > 0 /\ m >= 1
                THEN NoTelemetry(doc) =>
                       /\ r.doc.energyDelivered = Round2Energy(FormulaEnergy(doc, now))
                       /\ r.doc.batteryLevel
                            = Round1Level36(FormulaLevel36(doc, FormulaEnergy(doc, now)))
                ELSE /\ r.doc.energyDelivered = doc.energyDelivered
                     /\ r.doc.batteryLevel = doc.batteryLevel
                     /\ r.doc.averagePower = doc.averagePower
                     /\ r.doc.totalCost = doc.totalCost]_vars

\* GetActive returned 45 kWh and 95 % for a session without telemetry that
\* started at 20 % an hour ago at 50 kW
C22_Witness ==
    /\ last.op = "getActive" /\ last.req.at = now
    /\ \E r \in last.data :
          /\ NoTelemetry(sessions[r.id])
          /\ sessions[r.id].stationPowerOutput = 50
          /\ sessions[r.id].batteryLevelStart = 20 * PCT
          /\ r.doc.duration = 60
          /\ r.doc.energyDelivered = 45 * KWH
          /\ r.doc.batteryLevel = 95 * PCT

C24_EndFallsBackToRatedPower ==
    [][(Called("end") /\ last'.outcome = "ok") =>
          \A r \in last'.data :
              LET old == sessions[r.id]
                  new == sessions'[r.id]
                  d == DurationMinutes(old, now)
                  stillZero ==
                      /\ old.energyDelivered = 0
                      /\ \A b \in last'.req.batteryLevelEnd : b <= old.batteryLevelStart
              IN  (stillZero /\ old.stationPowerOutput > 0 /\ d >= 1) =>
                      /\ new.status = "completed"
                      /\ new.energyDelivered * 60 = old.stationPowerOutput * d * KWH
                      /\ new.averagePower = Rat(old.stationPowerOutput, 1)]_vars

\* End completed a one-minute session at 50 kW that had no energy and no
\* battery gain: it stores 50/60 kWh and 50 kW
C24_Witness ==
    /\ last.op = "end" /\ last.outcome = "ok"
    /\ \A b \in last.req.batteryLevelEnd : b = 10 * PCT
    /\ \E r \in last.data :
          /\ sessions[r.id].status = "completed"
          /\ sessions[r.id].stationPowerOutput = 50
          /\ sessions[r.id].duration = 1
          /\ sessions[r.id].energyDelivered * 60 = 50 * KWH
          /\ sessions[r.id].averagePower = Rat(50, 1)

C27_UpdateRetryIsIdempotent ==
    [][(/\ Called("update")
        /\ last.op = "update" /\ last.outcome = "ok"
        /\ last'.user = last.user /\ last'.req = last.req
        /\ \A r \in last.data :
              sessions[r.id].duration = DurationMinutes(sessions[r.id], now))
          => sessions' = sessions]_vars

\* ------------------------------------------------------------------ C28
\* C28: the energyDelivered a client observes for one session never goes
\* down: the energyDelivered in End's result is greater than or equal to the
\* energyDelivered the call before it (an Update or a GetActive of the same
\* user) returned for that session.
C28_EndEnergyNotBelowObserved ==
    [][(/\ Called("end") /\ last'.outcome = "ok"
        /\ last.op \in {"update", "getActive"} /\ last.outcome = "ok"
        /\ last.user = last'.user)
          => \A r \in last.data, e \in last'.data :
                 (r.id = e.id) => e.doc.energyDelivered >= r.doc.energyDelivered]_vars

\* ------------------------------------------------------------------ C30
\* C30: an operation invoked for user U never creates, modifies or returns a
\* session whose userId differs from U: an End by U that names a session of
\* another user fails with the not-found error and changes nothing, and a
\* Start by U reports a conflict only when U has an Active session of their
\* own.
C30_OperationsStayWithinCaller ==
    [][(\E op \in {"start", "update", "end", "getActive"} : Called(op)) =>
          LET U == last'.user
          IN  /\ \A i \in DOMAIN sessions :
                    sessions[i].userId # U => sessions'[i] = sessions[i]
              /\ \A i \in DOMAIN sessions' \ DOMAIN sessions :
                    sessions'[i].userId = U
              /\ \A r \in last'.data :
                    r.doc.userId = U /\ sessions'[r.id].userId = U
              /\ (/\ last'.op = "end"
                  /\ last'.req.sessionId \in DOMAIN sessions
                  /\ sessions[last'.req.sessionId].userId # U)
                    => (last'.outcome = "notfound" /\ sessions' = sessions)
              /\ (last'.op = "start" /\ last'.outcome = "conflict")
                    => ActiveIdsOf(sessions, U) # {}]_vars

\* a Start succeeded for a user while another user's earlier session is
\* Active
C30_Witness ==
    /\ last.op = "start" /\ last.outcome = "ok"
    /\ \E r \in last.data :
          /\ sessions[r.id].userId = last.user
          /\ sessions[r.id].status = "active"
          /\ \E j \in DOMAIN sessions :
                /\ j < r.id
                /\ sessions[j].userId # last.user
                /\ sessions[j].status = "active"

\* ------------------------------------------------------------------ C26
\* C26: a Completed session is never mutated, also when Update and End for
\* the same session overlap: once a session is Completed, no step changes
\* its status, batteryLevel, energyDelivered, averagePower, totalCost or
\* duration (an Update that read the session while it was Active and saves
\* after End committed leaves what End wrote).
C26_CompletedSurvivesOverlappingUpdate ==
    [][\A i \in DOMAIN sessions :
          sessions[i].status = "completed" =>
              /\ sessions'[i].status = "completed"
              /\ sessions'[i].batteryLevel = sessions[i].batteryLevel
              /\ sessions'[i].energyDelivered = sessions[i].energyDelivered
              /\ sessions'[i].averagePower = sessions[i].averagePower
              /\ sessions'[i].totalCost = sessions[i].totalCost
              /\ sessions'[i].duration = sessions[i].duration]_vars

\* ------------------------------------------------------------------ C29
\* C29: the stored energyDelivered and batteryLevel of an Active session
\* never decrease, even when two Update calls of the same user overlap: no
\* step that leaves a session Active lowers either of them.
C29_ActiveValuesNeverDecrease ==
    [][\A i \in DOMAIN sessions :
          (sessions[i].status = "active" /\ sessions'[i].status = "active") =>
              /\ sessions'[i].energyDelivered >= sessions[i].energyDelivered
              /\ sessions'[i].batteryLevel >= sessions[i].batteryLevel]_vars

====
